---- MODULE Spec2Model ----
(***************************************************************************)
(* Model of the Matrix Sudoku puzzle engine (js/sudoku-engine.js) and of   *)
(* the callers that drive it.  Grids are 9x9, indexed from 0 as in the     *)
(* source: grid[row][col], 0 = empty cell.                                 *)
(***************************************************************************)
EXTENDS Integers, Sequences, FiniteSets, TLC

(***************************************************************************)
(* Program constants                                                       *)
(***************************************************************************)
N == 9
BOX == 3
MAX_ATTEMPTS == 1000
MAX_SOLUTIONS == 2

Idx == 0 .. (N - 1)
\* null: no cell (findEmptyCell)
Null == <<>>

difficultySettings ==
    [easy   |-> [clues |-> 45],
     medium |-> [clues |-> 35],
     hard   |-> [clues |-> 25],
     expert |-> [clues |-> 17]]

Difficulties == {"easy", "medium", "hard", "expert"}

\* the difficulties a caller asks for: the four known ones and an unknown one
Requested == Difficulties \cup {"invalid"}

\* Array(9).fill().map(() => Array(9).fill(0))
EmptyGrid == [row \in Idx |-> [col \in Idx |-> 0]]

(***************************************************************************)
(* Bounds of the model                                                     *)
(***************************************************************************)
MaxSeed == 0
MaxPlayCells == 1
MaxMoves == 1
MaxCleared == 3
MaxEdits == 1
MaxArrows == 2
\* the clients that connect to the server
MaxSockets == 2

\* the cells a caller writes to: two cells of one row, two of one column and
\* two that share only a box
EditCells == {<<0, 0>>, <<0, 1>>, <<1, 0>>}

(***************************************************************************)
(* Math.random: a pseudo-random stream.  The state of the stream is an     *)
(* integer below RandMod; Math.floor(Math.random() * k) advances the       *)
(* stream and scales the new state to 0 .. k-1.                            *)
(***************************************************************************)
RandMod == 256

nextRand(s) == (s * 5 + 3) % RandMod

randInt(k, s) == (nextRand(s) * k) \div RandMod

(***************************************************************************)
(* Engine: pure helpers                                                    *)
(***************************************************************************)
\* isValidMove with the box taken from (row % 3, col % 3) instead of
\* (row - row % 3, col - col % 3): always the top-left box
isValidMoveBoxOffset(g, row, col, num) ==
    /\ \A x \in Idx : g[row][x] # num
    /\ \A x \in Idx : g[x][col] # num
    /\ LET startRow == row % BOX
           startCol == col % BOX
       IN  \A i \in 0 .. (BOX - 1) : \A j \in 0 .. (BOX - 1) :
               g[i + startRow][j + startCol] # num

\* isValidMove with the returns exchanged: false when num is nowhere in the
\* row, column and box, true when it is found
isValidMoveInverted(g, row, col, num) ==
    ~ (/\ \A x \in Idx : g[row][x] # num
       /\ \A x \in Idx : g[x][col] # num
       /\ LET startRow == row - (row % BOX)
              startCol == col - (col % BOX)
          IN  \A i \in 0 .. (BOX - 1) : \A j \in 0 .. (BOX - 1) :
                  g[i + startRow][j + startCol] # num)

isValidMove(g, row, col, num) ==
    /\ \A x \in Idx : g[row][x] # num
    /\ \A x \in Idx : g[x][col] # num
    /\ LET startRow == row - (row % BOX)
           startCol == col - (col % BOX)
       IN  \A i \in 0 .. (BOX - 1) : \A j \in 0 .. (BOX - 1) :
               g[i + startRow][j + startCol] # num

\* findEmptyCell with the row loop ending one row early (row < 8)
findEmptyCellShort(g) ==
    IF \A k \in 0 .. (N * (N - 1) - 1) : g[k \div N][k % N] # 0
    THEN Null
    ELSE LET k == CHOOSE k \in 0 .. (N * (N - 1) - 1) :
                      /\ g[k \div N][k % N] = 0
                      /\ \A j \in 0 .. (k - 1) : g[j \div N][j % N] # 0
         IN  <<k \div N, k % N>>

\* first empty cell in row-major order, as [row, col], or null
findEmptyCell(g) ==
    IF \A k \in 0 .. (N * N - 1) : g[k \div N][k % N] # 0
    THEN Null
    ELSE LET k == CHOOSE k \in 0 .. (N * N - 1) :
                      /\ g[k \div N][k % N] = 0
                      /\ \A j \in 0 .. (k - 1) : g[j \div N][j % N] # 0
         IN  <<k \div N, k % N>>

\* Fisher-Yates: for i = length-1 down to 1, swap [i] and [floor(random*(i+1))]
\* (sequences are 1-based: JS index i is position i + 1)
RECURSIVE shuffleFrom(_, _, _)
shuffleFrom(arr, i, s) ==
    IF i <= 0 THEN [array |-> arr, rng |-> s]
    ELSE LET j == randInt(i + 1, s)
         IN  shuffleFrom([arr EXCEPT ![i + 1] = arr[j + 1], ![j + 1] = arr[i + 1]],
                         i - 1, nextRand(s))

shuffleArray(arr, s) == shuffleFrom(arr, Len(arr) - 1, s)

\* shuffleRows without the copy: each row is read from the grid the earlier
\* assignments have already changed
shuffleRowsInPlace(g, group, s) ==
    LET sh == shuffleArray(<<group * BOX, group * BOX + 1, group * BOX + 2>>, s)
        g1 == [g EXCEPT ![group * BOX] = g[sh.array[1]]]
        g2 == [g1 EXCEPT ![group * BOX + 1] = g1[sh.array[2]]]
        g3 == [g2 EXCEPT ![group * BOX + 2] = g2[sh.array[3]]]
    IN  [grid |-> g3, rng |-> sh.rng]

\* rows of one 3-row group, taken from a copy of the grid in shuffled order
shuffleRows(g, group, s) ==
    LET sh == shuffleArray(<<group * BOX, group * BOX + 1, group * BOX + 2>>, s)
        tempGrid == g
    IN  [grid |-> [row \in Idx |->
                      IF row \div BOX = group
                      THEN tempGrid[sh.array[row - group * BOX + 1]]
                      ELSE g[row]],
         rng |-> sh.rng]

\* columns of one 3-column group, one shuffled order applied to every row
shuffleCols(g, group, s) ==
    LET sh == shuffleArray(<<group * BOX, group * BOX + 1, group * BOX + 2>>, s)
    IN  [grid |-> [row \in Idx |-> [col \in Idx |->
                      IF col \div BOX = group
                      THEN g[row][sh.array[col - group * BOX + 1]]
                      ELSE g[row][col]]],
         rng |-> sh.rng]

shuffleGrid(g, s) ==
    LET r0 == shuffleRows(g, 0, s)
        r1 == shuffleRows(r0.grid, 1, r0.rng)
        r2 == shuffleRows(r1.grid, 2, r1.rng)
        c0 == shuffleCols(r2.grid, 0, r2.rng)
        c1 == shuffleCols(c0.grid, 1, c0.rng)
    IN  shuffleCols(c1.grid, 2, c1.rng)

\* smallest member of a non-empty set of integers
Least(S) == CHOOSE x \in S : \A y \in S : x <= y

(***************************************************************************)
(* validatePuzzle, isComplete, getPossibleValues, getHint                  *)
(***************************************************************************)
\* the inner loop of validatePuzzle without the temporary clearing: the cell
\* is checked while it still holds its value
RECURSIVE validateRowNoClear(_, _, _, _)
validateRowNoClear(g, row, col, errors) ==
    IF col >= N
    THEN [grid |-> g, errors |-> errors]
    ELSE IF g[row][col] # 0
         THEN LET num == g[row][col]
                  errs == IF ~ isValidMove(g, row, col, num)
                          THEN Append(errors, [row |-> row, col |-> col,
                                               value |-> num])
                          ELSE errors
              IN  validateRowNoClear(g, row, col + 1, errs)
         ELSE validateRowNoClear(g, row, col + 1, errors)

\* the inner loop of validatePuzzle restoring the cell only when the check
\* passes: a cell in error stays cleared
RECURSIVE validateRowNoRestore(_, _, _, _)
validateRowNoRestore(g, row, col, errors) ==
    IF col >= N
    THEN [grid |-> g, errors |-> errors]
    ELSE IF g[row][col] # 0
         THEN LET num == g[row][col]
                  cleared == [g EXCEPT ![row][col] = 0]
              IN  IF ~ isValidMove(cleared, row, col, num)
                  THEN validateRowNoRestore(cleared, row, col + 1,
                           Append(errors, [row |-> row, col |-> col, value |-> num]))
                  ELSE validateRowNoRestore(g, row, col + 1, errors)
         ELSE validateRowNoRestore(g, row, col + 1, errors)

\* the inner loop of validatePuzzle over the cells of one row, from column
\* col on: a non-empty cell is cleared, checked and restored in the grid
\* that is passed in
RECURSIVE validateRow(_, _, _, _)
validateRow(g, row, col, errors) ==
    IF col >= N
    THEN [grid |-> g, errors |-> errors]
    ELSE IF g[row][col] # 0
         THEN LET num == g[row][col]
                  cleared == [g EXCEPT ![row][col] = 0]
                  errs == IF ~ isValidMove(cleared, row, col, num)
                          THEN Append(errors, [row |-> row, col |-> col,
                                               value |-> num])
                          ELSE errors
                  restored == [cleared EXCEPT ![row][col] = num]
              IN  validateRow(restored, row, col + 1, errs)
         ELSE validateRow(g, row, col + 1, errors)

\* the outer loop of validatePuzzle, from row on
RECURSIVE validateRows(_, _, _)
validateRows(g, row, errors) ==
    IF row >= N
    THEN [grid |-> g, isValid |-> (Len(errors) = 0), errors |-> errors]
    ELSE LET r == validateRow(g, row, 0, errors)
         IN  validateRows(r.grid, row + 1, r.errors)

\* result of validatePuzzle(g), with the grid as the call leaves it
validatePuzzle(g) == validateRows(g, 0, <<>>)

\* isComplete without the validation: a full grid counts as complete
isCompleteWhenFull(g) == ~ \E row \in Idx : \E col \in Idx : g[row][col] = 0

isComplete(g) ==
    IF \E row \in Idx : \E col \in Idx : g[row][col] = 0
    THEN FALSE
    ELSE validatePuzzle(g).isValid

OneToNine == <<1, 2, 3, 4, 5, 6, 7, 8, 9>>

getPossibleValues(g, row, col) ==
    SelectSeq(OneToNine, LAMBDA num : isValidMove(g, row, col, num))

\* the 81 cells in row-major order
RowMajor == [k \in 1 .. (N * N) |-> [row |-> (k - 1) \div N, col |-> (k - 1) % N]]

NoHint == [null |-> TRUE]
NoBest == [null |-> TRUE]

\* the loop over emptyCells passing over the cells no value fits
RECURSIVE hintScanSkipDead(_, _, _, _, _)
hintScanSkipDead(g, emptyCells, k, bestCell, minPossibilities) ==
    IF k > Len(emptyCells)
    THEN bestCell
    ELSE LET possibilities == getPossibleValues(g, emptyCells[k].row, emptyCells[k].col)
         IN  IF Len(possibilities) > 0 /\ Len(possibilities) < minPossibilities
             THEN IF Len(possibilities) = 1
                  THEN emptyCells[k]
                  ELSE hintScanSkipDead(g, emptyCells, k + 1, emptyCells[k],
                                        Len(possibilities))
             ELSE hintScanSkipDead(g, emptyCells, k + 1, bestCell, minPossibilities)

\* the loop over emptyCells from position k on, with its break
RECURSIVE hintScan(_, _, _, _, _)
hintScan(g, emptyCells, k, bestCell, minPossibilities) ==
    IF k > Len(emptyCells)
    THEN bestCell
    ELSE LET possibilities == getPossibleValues(g, emptyCells[k].row, emptyCells[k].col)
         IN  IF Len(possibilities) < minPossibilities
             THEN IF Len(possibilities) = 1
                  THEN emptyCells[k]
                  ELSE hintScan(g, emptyCells, k + 1, emptyCells[k], Len(possibilities))
             ELSE hintScan(g, emptyCells, k + 1, bestCell, minPossibilities)

\* getHint reading the solution with row and column swapped
getHintTransposed(g, sol) ==
    LET emptyCells == SelectSeq(RowMajor, LAMBDA c : g[c.row][c.col] = 0)
    IN  IF Len(emptyCells) = 0
        THEN NoHint
        ELSE LET bestCell == hintScan(g, emptyCells, 1, NoBest, 10)
             IN  IF bestCell # NoBest
                 THEN [row |-> bestCell.row, col |-> bestCell.col,
                       value |-> sol[bestCell.col][bestCell.row]]
                 ELSE NoHint

\* getHint(grid) of an engine whose solution field is sol
getHint(g, sol) ==
    LET emptyCells == SelectSeq(RowMajor, LAMBDA c : g[c.row][c.col] = 0)
    IN  IF Len(emptyCells) = 0
        THEN NoHint
        ELSE LET bestCell == hintScan(g, emptyCells, 1, NoBest, 10)
             IN  IF bestCell # NoBest
                 THEN [row |-> bestCell.row, col |-> bestCell.col,
                       value |-> sol[bestCell.row][bestCell.col]]
                 ELSE NoHint

isGivenCell(initial, row, col) == initial[row][col] # 0

(***************************************************************************)
(* State                                                                   *)
(***************************************************************************)
VARIABLES
    grid, solution, initialGrid, difficulty,   \* SudokuEngine fields
    rng,                                       \* state of Math.random
    pc,                                        \* position of the running call
    stack,                                     \* frames of the running recursion
    attempts, removed, cell,                   \* locals of createPuzzle
    testGrid, solutions,                       \* locals of hasUniqueSolution
    selectedCell, gameActive, moves,           \* SudokuUI fields; moves counts entries
    argGrid, edits, result,                    \* a grid built by a caller, and the
                                               \* result of its last validation
    gridCopy, steps, solveResult,              \* locals and result of solveCurrentPuzzle
    entry, puzzle,                             \* generatePuzzle: the fields on entry,
                                               \* the object returned
    arrows,                                    \* counts the arrow keys pressed
    multiplayerRooms, sockets                  \* MatrixSudokuServer: the rooms, and
                                               \* the state of each socket

engineVars == <<grid, solution, initialGrid, difficulty>>
genVars == <<rng, pc, stack, attempts, removed, cell, testGrid, solutions>>
uiVars == <<selectedCell, gameActive, moves, arrows>>
callerVars == <<argGrid, edits, result>>
solveVars == <<gridCopy, steps, solveResult>>
callVars == <<entry, puzzle>>
serverVars == <<multiplayerRooms, sockets>>
vars == <<engineVars, genVars, uiVars, callerVars, solveVars, callVars, serverVars>>

NoSelection == [null |-> TRUE]
NoResult == [null |-> TRUE]

NoCell == [row |-> 0, col |-> 0, backup |-> 0]
NoEntry == [null |-> TRUE]
NoPuzzle == [null |-> TRUE]

\* new SudokuEngine(), new SudokuUI(engine)
Constructed ==
    /\ grid = EmptyGrid
    /\ solution = EmptyGrid
    /\ initialGrid = EmptyGrid
    /\ difficulty = "medium"
    /\ rng \in 0 .. MaxSeed
    /\ pc = "idle"
    /\ stack = <<>>
    /\ attempts = 0
    /\ removed = 0
    /\ cell = NoCell
    /\ testGrid = EmptyGrid
    /\ solutions = <<>>
    /\ selectedCell = NoSelection
    /\ gameActive = FALSE
    /\ moves = 0
    /\ edits = 0
    /\ result = NoResult
    /\ gridCopy = EmptyGrid
    /\ steps = <<>>
    /\ solveResult = NoResult
    /\ entry = NoEntry
    /\ puzzle = NoPuzzle
    /\ arrows = 0
    /\ multiplayerRooms = [id \in {} |-> id]      \* new Map()
    /\ sockets = [s \in 1 .. MaxSockets |-> "new"]

Init ==
    /\ Constructed
    /\ argGrid = EmptyGrid

(***************************************************************************)
(* generatePuzzle -> generateCompleteGrid -> solvePuzzle(this.grid)        *)
(* The recursion of solvePuzzle is kept as an explicit stack of frames     *)
(* [row, col, numbers, i]: i is the position in numbers the for-loop of    *)
(* that frame tries next.                                                  *)
(***************************************************************************)
\* entry of a solvePuzzle call on grid g: solved when there is no empty
\* cell (the call returns true), else the frame the call opens
solveEnter(g, s) ==
    LET empty == findEmptyCell(g)
    IN  IF empty = Null
        THEN [solved |-> TRUE, rng |-> s]
        ELSE LET sh == shuffleArray(<<1, 2, 3, 4, 5, 6, 7, 8, 9>>, s)
             IN  [solved |-> FALSE,
                  frame |-> [row |-> empty[1], col |-> empty[2],
                             numbers |-> sh.array, i |-> 1],
                  rng |-> sh.rng]

GeneratePuzzle(d) ==
    /\ pc = "idle"
    /\ difficulty' = d
    /\ grid' = EmptyGrid
    /\ LET e == solveEnter(EmptyGrid, rng)
       IN  /\ stack' = <<e.frame>>
           /\ rng' = e.rng
    /\ pc' = "solvePuzzle"
    /\ entry' = [requested |-> d, grid |-> grid, solution |-> solution,
                  initialGrid |-> initialGrid, difficulty |-> difficulty]
    /\ puzzle' = NoPuzzle
    /\ UNCHANGED <<solution, initialGrid, attempts, removed, cell, testGrid, solutions>>
    /\ UNCHANGED <<uiVars, serverVars, callerVars, solveVars>>

\* one iteration of the for-loop of the innermost solvePuzzle call that
\* reaches a recursive call, or the return of that call
SolvePuzzleStep ==
    /\ pc = "solvePuzzle"
    /\ LET top == stack[Len(stack)]
           cand == {j \in top.i .. Len(top.numbers) :
                       isValidMove(grid, top.row, top.col, top.numbers[j])}
       IN  IF cand = {}
           THEN \* return false: the caller backtracks its own cell
                /\ stack' = SubSeq(stack, 1, Len(stack) - 1)
                /\ IF Len(stack) = 1
                   THEN grid' = grid /\ pc' = "shuffleGrid"
                   ELSE LET caller == stack[Len(stack) - 1]
                        IN  /\ grid' = [grid EXCEPT ![caller.row][caller.col] = 0]
                            /\ pc' = pc
                /\ rng' = rng
           ELSE LET j == Least(cand)
                    g1 == [grid EXCEPT ![top.row][top.col] = top.numbers[j]]
                    e == solveEnter(g1, rng)
                IN  /\ grid' = g1
                    /\ rng' = e.rng
                    /\ IF e.solved
                       THEN \* solved: every pending call returns true
                            stack' = <<>> /\ pc' = "shuffleGrid"
                       ELSE /\ stack' = Append([stack EXCEPT ![Len(stack)].i = j + 1],
                                               e.frame)
                            /\ pc' = pc
    /\ UNCHANGED <<solution, initialGrid, difficulty, attempts, removed, cell,
                   testGrid, solutions>>
    /\ UNCHANGED <<uiVars, serverVars, callerVars, solveVars, callVars>>

\* generatePuzzle copying the solution before generateCompleteGrid shuffles
\* the grid
CopyThenShuffleGrid ==
    /\ pc = "shuffleGrid"
    /\ LET sh == shuffleGrid(grid, rng)
       IN  /\ grid' = sh.grid
           /\ solution' = grid
           /\ rng' = sh.rng
    /\ attempts' = 0
    /\ removed' = 0
    /\ pc' = "createPuzzle"
    /\ UNCHANGED <<initialGrid, difficulty, stack, cell, testGrid, solutions>>
    /\ UNCHANGED <<uiVars, serverVars, callerVars, solveVars, callVars>>

\* generatePuzzle taking the solution from initialGrid (the grid of the
\* puzzle before) instead of the grid just completed
ShuffleGridAndCopyInitial ==
    /\ pc = "shuffleGrid"
    /\ LET sh == shuffleGrid(grid, rng)
       IN  /\ grid' = sh.grid
           /\ solution' = initialGrid
           /\ rng' = sh.rng
    /\ attempts' = 0
    /\ removed' = 0
    /\ pc' = "createPuzzle"
    /\ UNCHANGED <<initialGrid, difficulty, stack, cell, testGrid, solutions>>
    /\ UNCHANGED <<uiVars, serverVars, callerVars, solveVars, callVars>>

\* generateCompleteGrid: shuffleGrid; generatePuzzle: copy the grid as the
\* solution; createPuzzle: attempts = 0, removed = 0
ShuffleGridAndCopy ==
    /\ pc = "shuffleGrid"
    /\ LET sh == shuffleGrid(grid, rng)
       IN  /\ grid' = sh.grid
           /\ solution' = sh.grid
           /\ rng' = sh.rng
    /\ attempts' = 0
    /\ removed' = 0
    /\ pc' = "createPuzzle"
    /\ UNCHANGED <<initialGrid, difficulty, stack, cell, testGrid, solutions>>
    /\ UNCHANGED <<uiVars, serverVars, callerVars, solveVars, callVars>>

(***************************************************************************)
(* createPuzzle and hasUniqueSolution -> findAllSolutions(testGrid, ...)   *)
(* Frames of findAllSolutions are [row, col, num]: num is the value the    *)
(* for-loop of that frame tries next.                                      *)
(***************************************************************************)
\* the grid with the cell of every pending frame reset to 0: what the
\* unwinding callers leave when a call returns false (grid[row][col] = 0)
resetFrames(g, frames) ==
    [row \in Idx |-> [col \in Idx |->
        IF \E k \in 1 .. Len(frames) : frames[k].row = row /\ frames[k].col = col
        THEN 0
        ELSE g[row][col]]]

\* createPuzzle keeping a removal whenever the grid has a solution at all
AfterSolvableTest(found) ==
    /\ IF Len(found) >= 1
       THEN /\ removed' = removed + 1
            /\ grid' = grid
       ELSE /\ removed' = removed
            /\ grid' = [grid EXCEPT ![cell.row][cell.col] = cell.backup]
    /\ attempts' = attempts + 1
    /\ pc' = "createPuzzle"

\* createPuzzle after hasUniqueSolution returned: count the removal or
\* restore the backup, then attempts++
AfterUniqueTest(found) ==
    /\ IF Len(found) = 1
       THEN /\ removed' = removed + 1
            /\ grid' = grid
       ELSE /\ removed' = removed
            /\ grid' = [grid EXCEPT ![cell.row][cell.col] = cell.backup]
    /\ attempts' = attempts + 1
    /\ pc' = "createPuzzle"

\* the while-loop of createPuzzle running one removal too far
loopConditionInclusive(clues, nRemoved, nAttempts) ==
    LET cellsToRemove == (N * N) - clues
    IN  nRemoved <= cellsToRemove /\ nAttempts < MAX_ATTEMPTS

\* the while-loop of createPuzzle without the attempt budget
loopConditionUnbounded(clues, nRemoved, nAttempts) ==
    LET cellsToRemove == (N * N) - clues
    IN  nRemoved < cellsToRemove

\* the condition of the while-loop of createPuzzle
loopCondition(clues, nRemoved, nAttempts) ==
    LET cellsToRemove == (N * N) - clues
    IN  nRemoved < cellsToRemove /\ nAttempts < MAX_ATTEMPTS

\* one pass of the while-loop body up to the call of hasUniqueSolution
CreatePuzzleAttempt ==
    /\ pc = "createPuzzle"
    /\ difficulty \in DOMAIN difficultySettings
    /\ loopCondition(difficultySettings[difficulty].clues, removed, attempts)
    /\ LET row == randInt(N, rng)
           col == randInt(N, nextRand(rng))
       IN  /\ rng' = nextRand(nextRand(rng))
           /\ IF grid[row][col] # 0
              THEN LET g1 == [grid EXCEPT ![row][col] = 0]
                       empty == findEmptyCell(g1)
                   IN  /\ cell' = [row |-> row, col |-> col, backup |-> grid[row][col]]
                       /\ grid' = g1
                       /\ testGrid' = g1
                       /\ solutions' = <<>>
                       /\ stack' = <<[row |-> empty[1], col |-> empty[2], num |-> 1]>>
                       /\ pc' = "findAllSolutions"
                       /\ UNCHANGED <<attempts>>
              ELSE /\ attempts' = attempts + 1
                   /\ UNCHANGED <<grid, cell, testGrid, solutions, stack, pc>>
    /\ UNCHANGED <<solution, initialGrid, difficulty, removed>>
    /\ UNCHANGED <<uiVars, serverVars, callerVars, solveVars, callVars>>

\* findAllSolutions cutting the search off at the first solution it records
FindFirstSolutionStep ==
    /\ pc = "findAllSolutions"
    /\ LET top == stack[Len(stack)]
           cand == {num \in top.num .. 9 :
                       isValidMove(testGrid, top.row, top.col, num)}
       IN  IF cand = {}
           THEN IF Len(stack) = 1
                THEN /\ AfterUniqueTest(solutions)
                     /\ stack' = <<>>
                     /\ UNCHANGED <<testGrid, solutions>>
                ELSE LET caller == stack[Len(stack) - 1]
                     IN  /\ testGrid' = [testGrid EXCEPT ![caller.row][caller.col] = 0]
                         /\ stack' = SubSeq(stack, 1, Len(stack) - 1)
                         /\ UNCHANGED <<grid, attempts, removed, pc, solutions>>
           ELSE LET num == Least(cand)
                    g1 == [testGrid EXCEPT ![top.row][top.col] = num]
                    st1 == [stack EXCEPT ![Len(stack)].num = num + 1]
                    empty == findEmptyCell(g1)
                IN  IF empty # Null
                    THEN /\ testGrid' = g1
                         /\ stack' = Append(st1, [row |-> empty[1], col |-> empty[2],
                                                  num |-> 1])
                         /\ UNCHANGED <<grid, attempts, removed, pc, solutions>>
                    ELSE LET found == Append(solutions, g1)
                         IN  /\ solutions' = found
                             /\ testGrid' = resetFrames(g1, stack)
                             /\ stack' = <<>>
                             /\ AfterUniqueTest(found)
    /\ UNCHANGED <<solution, initialGrid, difficulty, rng, cell>>
    /\ UNCHANGED <<uiVars, serverVars, callerVars, solveVars, callVars>>

\* one iteration of the for-loop of the innermost findAllSolutions call that
\* reaches a recursive call, or the return of that call
FindAllSolutionsStep ==
    /\ pc = "findAllSolutions"
    /\ LET top == stack[Len(stack)]
           cand == {num \in top.num .. 9 :
                       isValidMove(testGrid, top.row, top.col, num)}
       IN  IF cand = {}
           THEN \* loop over: return true
                IF Len(stack) = 1
                THEN /\ AfterUniqueTest(solutions)
                     /\ stack' = <<>>
                     /\ UNCHANGED <<testGrid, solutions>>
                ELSE LET caller == stack[Len(stack) - 1]
                     IN  /\ testGrid' = [testGrid EXCEPT ![caller.row][caller.col] = 0]
                         /\ stack' = SubSeq(stack, 1, Len(stack) - 1)
                         /\ UNCHANGED <<grid, attempts, removed, pc, solutions>>
           ELSE LET num == Least(cand)
                    g1 == [testGrid EXCEPT ![top.row][top.col] = num]
                    st1 == [stack EXCEPT ![Len(stack)].num = num + 1]
                    empty == findEmptyCell(g1)
                IN  IF empty # Null
                    THEN \* the recursive call opens a frame
                         /\ testGrid' = g1
                         /\ stack' = Append(st1, [row |-> empty[1], col |-> empty[2],
                                                  num |-> 1])
                         /\ UNCHANGED <<grid, attempts, removed, pc, solutions>>
                    ELSE \* the recursive call records a solution
                         LET found == Append(solutions, g1)
                         IN  /\ solutions' = found
                             /\ IF Len(found) < MAX_SOLUTIONS
                                THEN \* it returns true: undo, next value
                                     /\ testGrid' = [g1 EXCEPT ![top.row][top.col] = 0]
                                     /\ stack' = st1
                                     /\ UNCHANGED <<grid, attempts, removed, pc>>
                                ELSE \* it returns false: every call returns false
                                     /\ testGrid' = resetFrames(g1, stack)
                                     /\ stack' = <<>>
                                     /\ AfterUniqueTest(found)
    /\ UNCHANGED <<solution, initialGrid, difficulty, rng, cell>>
    /\ UNCHANGED <<uiVars, serverVars, callerVars, solveVars, callVars>>

\* generatePuzzle falling back to the constructor's difficulty
CreatePuzzleDefaults ==
    /\ pc = "createPuzzle"
    /\ difficulty \notin DOMAIN difficultySettings
    /\ difficulty' = "medium"
    /\ UNCHANGED <<grid, solution, initialGrid, genVars>>
    /\ UNCHANGED <<uiVars, serverVars, callerVars, solveVars, callVars>>

\* createPuzzle reads .clues of the settings of a difficulty that has none
\* (undefined): a TypeError leaves createPuzzle and generatePuzzle
CreatePuzzleThrows ==
    /\ pc = "createPuzzle"
    /\ difficulty \notin DOMAIN difficultySettings
    /\ pc' = "threw"
    /\ UNCHANGED <<engineVars, rng, stack, attempts, removed, cell, testGrid, solutions>>
    /\ UNCHANGED <<uiVars, serverVars, callerVars, solveVars, callVars>>

\* grid: this.grid in the object generatePuzzle returns: the array the engine
\* holds, not a copy of it
returnedGrid(g) == [shared |-> TRUE]

\* the while-loop ends; generatePuzzle stores the initial state and returns
\* to startNewGame, which resets the selection and activates the game
CreatePuzzleExit ==
    /\ pc = "createPuzzle"
    /\ difficulty \in DOMAIN difficultySettings
    /\ ~ loopCondition(difficultySettings[difficulty].clues, removed, attempts)
    /\ initialGrid' = grid
    /\ puzzle' = [grid |-> returnedGrid(grid), difficulty |-> difficulty]
    /\ pc' = "returned"
    /\ selectedCell' = NoSelection
    /\ gameActive' = TRUE
    /\ UNCHANGED <<grid, solution, difficulty, rng, stack, attempts, removed,
                   cell, testGrid, solutions, moves, arrows, serverVars, callerVars, solveVars,
                   entry>>

(***************************************************************************)
(* solveCurrentPuzzle -> solvePuzzleWithSteps(gridCopy, steps)             *)
(* Frames of solvePuzzleWithSteps are [row, col, num]: num is the value    *)
(* the for-loop of that frame tries next.                                  *)
(***************************************************************************)
\* the object solveCurrentPuzzle would return if it kept the backtrack steps
\* in place of the place steps
solveReturnBacktracks(solved, g, st) ==
    [success |-> solved,
     solution |-> IF solved THEN g ELSE Null,
     steps |-> SelectSeq(st, LAMBDA step : step.type = "backtrack")]

\* the object solveCurrentPuzzle returns
solveReturn(solved, g, st) ==
    [success |-> solved,
     solution |-> IF solved THEN g ELSE Null,
     steps |-> SelectSeq(st, LAMBDA step : step.type = "place")]

\* solveCurrentPuzzle: copy the grid, enter solvePuzzleWithSteps
SolveCurrentPuzzle ==
    /\ pc \in {"idle", "restored"}
    /\ gridCopy' = grid
    /\ steps' = <<>>
    /\ LET empty == findEmptyCell(grid)
       IN  IF empty = Null
           THEN \* no empty cell: solvePuzzleWithSteps returns true at once
                /\ solveResult' = solveReturn(TRUE, grid, <<>>)
                /\ stack' = <<>>
                /\ pc' = "solved"
           ELSE /\ solveResult' = NoResult
                /\ stack' = <<[row |-> empty[1], col |-> empty[2], num |-> 1]>>
                /\ pc' = "solvePuzzleWithSteps"
    /\ UNCHANGED <<engineVars, rng, attempts, removed, cell, testGrid, solutions>>
    /\ UNCHANGED <<uiVars, serverVars, callerVars, callVars>>

\* one iteration of the for-loop of the innermost solvePuzzleWithSteps call
\* that reaches a recursive call, or the return of that call
SolvePuzzleWithStepsStep ==
    /\ pc = "solvePuzzleWithSteps"
    /\ LET top == stack[Len(stack)]
           cand == {num \in top.num .. 9 :
                       isValidMove(gridCopy, top.row, top.col, num)}
       IN  IF cand = {}
           THEN \* loop over: return false
                IF Len(stack) = 1
                THEN /\ solveResult' = solveReturn(FALSE, gridCopy, steps)
                     /\ stack' = <<>>
                     /\ pc' = "solved"
                     /\ UNCHANGED <<gridCopy, steps>>
                ELSE LET caller == stack[Len(stack) - 1]
                     IN  /\ gridCopy' = [gridCopy EXCEPT ![caller.row][caller.col] = 0]
                         /\ steps' = Append(steps, [row |-> caller.row, col |-> caller.col,
                                                    value |-> 0, type |-> "backtrack"])
                         /\ stack' = SubSeq(stack, 1, Len(stack) - 1)
                         /\ UNCHANGED <<pc, solveResult>>
           ELSE LET num == Least(cand)
                    g1 == [gridCopy EXCEPT ![top.row][top.col] = num]
                    st1 == Append(steps, [row |-> top.row, col |-> top.col,
                                          value |-> num, type |-> "place"])
                    empty == findEmptyCell(g1)
                IN  /\ gridCopy' = g1
                    /\ steps' = st1
                    /\ IF empty = Null
                       THEN \* solved: every pending call returns true
                            /\ solveResult' = solveReturn(TRUE, g1, st1)
                            /\ stack' = <<>>
                            /\ pc' = "solved"
                       ELSE /\ stack' = Append([stack EXCEPT ![Len(stack)].num = num + 1],
                                               [row |-> empty[1], col |-> empty[2],
                                                num |-> 1])
                            /\ UNCHANGED <<pc, solveResult>>
    /\ UNCHANGED <<engineVars, rng, attempts, removed, cell, testGrid, solutions>>
    /\ UNCHANGED <<uiVars, serverVars, callerVars, callVars>>

(***************************************************************************)
(* SudokuUI: the player selects a cell, enters or erases a number, asks    *)
(* for a hint.                                                             *)
(***************************************************************************)
\* the cells up to the MaxPlayCells-th cell that is not given, row-major
PlayCells ==
    LET free == SelectSeq(RowMajor, LAMBDA c : ~ isGivenCell(initialGrid, c.row, c.col))
        last == IF Len(free) <= MaxPlayCells THEN N * N - 1
                ELSE free[MaxPlayCells].row * N + free[MaxPlayCells].col
    IN  {c \in {RowMajor[k] : k \in 1 .. (N * N)} : c.row * N + c.col <= last}

HandleCellClick(c) ==
    /\ pc = "returned"
    /\ ~ isGivenCell(initialGrid, c.row, c.col)
    /\ selectedCell' = [row |-> c.row, col |-> c.col]
    /\ UNCHANGED <<engineVars, genVars, gameActive, moves, arrows, serverVars, callerVars,
                   solveVars, callVars>>

\* placeNumber without the isGivenCell test: the number is written whatever
\* the selected cell is
PlaceNumberAnyCell(number) ==
    /\ pc = "returned"
    /\ moves < MaxMoves
    /\ selectedCell # NoSelection
    /\ LET row == selectedCell.row
           col == selectedCell.col
           g1 == [grid EXCEPT ![row][col] = number]
       IN  IF number # 0
           THEN LET validation == validatePuzzle(g1)
                    cellError == \E k \in 1 .. Len(validation.errors) :
                                    /\ validation.errors[k].row = row
                                    /\ validation.errors[k].col = col
                IN  /\ grid' = validation.grid
                    /\ gameActive' = IF ~ cellError /\ isComplete(validation.grid)
                                     THEN FALSE
                                     ELSE gameActive
           ELSE /\ grid' = g1
                /\ gameActive' = gameActive
    /\ moves' = moves + 1
    /\ UNCHANGED <<solution, initialGrid, difficulty, genVars, selectedCell, arrows, serverVars,
                   callerVars, solveVars, callVars>>

\* placeNumber(number), number = 0 erases
PlaceNumber(number) ==
    /\ pc = "returned"
    /\ moves < MaxMoves
    /\ selectedCell # NoSelection
    /\ ~ isGivenCell(initialGrid, selectedCell.row, selectedCell.col)
    /\ LET row == selectedCell.row
           col == selectedCell.col
           g1 == [grid EXCEPT ![row][col] = number]
       IN  IF number # 0
           THEN LET validation == validatePuzzle(g1)
                    cellError == \E k \in 1 .. Len(validation.errors) :
                                    /\ validation.errors[k].row = row
                                    /\ validation.errors[k].col = col
                IN  /\ grid' = validation.grid
                    /\ gameActive' = IF ~ cellError /\ isComplete(validation.grid)
                                     THEN FALSE      \* gameComplete()
                                     ELSE gameActive
           ELSE /\ grid' = g1
                /\ gameActive' = gameActive
    /\ moves' = moves + 1
    /\ UNCHANGED <<solution, initialGrid, difficulty, genVars, selectedCell, arrows, serverVars,
                   callerVars, solveVars, callVars>>

\* showHint(): the hint is written into the grid
showHint ==
    /\ pc = "returned"
    /\ gameActive
    /\ LET hint == getHint(grid, solution)
       IN  IF hint # NoHint
           THEN LET g1 == [grid EXCEPT ![hint.row][hint.col] = hint.value]
                IN  /\ grid' = g1
                    /\ gameActive' = IF isComplete(g1) THEN FALSE ELSE gameActive
           ELSE UNCHANGED <<grid, gameActive>>
    /\ UNCHANGED <<solution, initialGrid, difficulty, genVars, selectedCell, arrows, serverVars,
                   callerVars, solveVars, callVars>>

\* a hint, counted as one of the moves of the player
ShowHint ==
    /\ moves < MaxMoves
    /\ showHint
    /\ moves' = moves + 1

\* a hint the player takes besides their moves, while there is one to take
ShowHintAgain ==
    /\ showHint
    /\ getHint(grid, solution) # NoHint
    /\ moves' = moves

\* checkSolution()
CheckSolution ==
    /\ pc = "returned"
    /\ moves < MaxMoves
    /\ gameActive
    /\ LET validation == validatePuzzle(grid)
       IN  /\ grid' = validation.grid
           /\ gameActive' = IF validation.isValid /\ isComplete(validation.grid)
                            THEN FALSE      \* gameComplete()
                            ELSE gameActive
    /\ moves' = moves + 1
    /\ UNCHANGED <<solution, initialGrid, difficulty, genVars, selectedCell, arrows, serverVars,
                   callerVars, solveVars, callVars>>

\* right click: select the cell and erase it (placeNumber(0))
HandleCellRightClick(c) ==
    /\ pc = "returned"
    /\ moves < MaxMoves
    /\ ~ isGivenCell(initialGrid, c.row, c.col)
    /\ selectedCell' = [row |-> c.row, col |-> c.col]
    /\ grid' = [grid EXCEPT ![c.row][c.col] = 0]
    /\ moves' = moves + 1
    /\ UNCHANGED <<solution, initialGrid, difficulty, genVars, gameActive, arrows, serverVars,
                   callerVars, solveVars, callVars>>

Directions == {"ArrowUp", "ArrowDown", "ArrowLeft", "ArrowRight"}

\* handleKeyPress with an arrow key -> moveSelection(direction): the
\* selection moves one cell, stopping at the border, onto any cell
MoveSelection(direction) ==
    /\ pc = "returned"
    /\ arrows < MaxArrows
    /\ selectedCell # NoSelection
    /\ LET row == selectedCell.row
           col == selectedCell.col
           up == IF row - 1 > 0 THEN row - 1 ELSE 0
           down == IF row + 1 < 8 THEN row + 1 ELSE 8
           left == IF col - 1 > 0 THEN col - 1 ELSE 0
           right == IF col + 1 < 8 THEN col + 1 ELSE 8
       IN  selectedCell' =
               CASE direction = "ArrowUp" -> [row |-> up, col |-> col]
                 [] direction = "ArrowDown" -> [row |-> down, col |-> col]
                 [] direction = "ArrowLeft" -> [row |-> row, col |-> left]
                 [] direction = "ArrowRight" -> [row |-> row, col |-> right]
    /\ arrows' = arrows + 1
    /\ UNCHANGED <<engineVars, genVars, gameActive, moves, callerVars, solveVars,
                   callVars, serverVars>>

\* SudokuUI.solvePuzzle: the solution is copied into the engine's grid cell
\* by cell and the game ends
UiSolvePuzzle ==
    /\ pc = "returned"
    /\ moves < MaxMoves
    /\ gameActive
    /\ grid' = [row \in Idx |-> [col \in Idx |-> solution[row][col]]]
    /\ gameActive' = FALSE
    /\ moves' = moves + 1
    /\ UNCHANGED <<solution, initialGrid, difficulty, genVars, selectedCell, arrows, serverVars,
                   callerVars, solveVars, callVars>>

Next ==
    \/ \E d \in Requested : GeneratePuzzle(d)
    \/ SolvePuzzleStep
    \/ ShuffleGridAndCopy
    \/ CreatePuzzleAttempt
    \/ FindAllSolutionsStep
    \/ CreatePuzzleThrows
    \/ CreatePuzzleExit
    \/ \E c \in PlayCells : HandleCellClick(c)
    \/ \E number \in 0 .. 9 : PlaceNumber(number)
    \/ ShowHint
    \/ SolveCurrentPuzzle
    \/ SolvePuzzleWithStepsStep

Spec == Init /\ [][Next]_vars

\* a call of the engine is running
Running ==
    pc \in {"solvePuzzle", "shuffleGrid", "createPuzzle", "findAllSolutions",
            "solvePuzzleWithSteps"}

\* A call that is running keeps running: the engine is synchronous and
\* single-threaded.  This is weak fairness of Next while a call is running,
\* with "Next is enabled" written as Running: every running position has a
\* next step.
FairSpec == Spec /\ ([]<>(~ Running) \/ []<><<Next>>_vars)

(***************************************************************************)
(* A caller (the unit tests) builds a grid of its own and passes it to     *)
(* the engine's functions.                                                 *)
(***************************************************************************)
\* the solved grid of the tests
validGrid ==
    <<<<5, 3, 4, 6, 7, 8, 9, 1, 2>>,
      <<6, 7, 2, 1, 9, 5, 3, 4, 8>>,
      <<1, 9, 8, 3, 4, 2, 5, 6, 7>>,
      <<8, 5, 9, 7, 6, 1, 4, 2, 3>>,
      <<4, 2, 6, 8, 5, 3, 7, 9, 1>>,
      <<7, 1, 3, 9, 2, 4, 8, 5, 6>>,
      <<9, 6, 1, 5, 3, 7, 2, 8, 4>>,
      <<2, 8, 7, 4, 1, 9, 6, 3, 5>>,
      <<3, 4, 5, 2, 8, 6, 1, 7, 9>>>>

CanonGrid == [row \in Idx |-> [col \in Idx |-> validGrid[row + 1][col + 1]]]

\* the solved grid with its first k cells (row-major) emptied
ClearFirst(g, k) ==
    [row \in Idx |-> [col \in Idx |-> IF row * N + col < k THEN 0 ELSE g[row][col]]]

InitCalls ==
    /\ Constructed
    /\ argGrid \in {ClearFirst(CanonGrid, k) : k \in 0 .. MaxCleared}

\* testGrid[row][col] = value
SetCell(row, col, value) ==
    /\ edits < MaxEdits
    /\ argGrid' = [argGrid EXCEPT ![row][col] = value]
    /\ edits' = edits + 1
    /\ result' = NoResult
    /\ UNCHANGED <<engineVars, genVars, uiVars, serverVars, solveVars, callVars>>

\* engine.validatePuzzle(testGrid)
CallValidatePuzzle ==
    /\ LET r == validatePuzzle(argGrid)
       IN  /\ argGrid' = r.grid
           /\ result' = [isValid |-> r.isValid, errors |-> r.errors]
    /\ UNCHANGED <<engineVars, genVars, uiVars, serverVars, edits, solveVars, callVars>>

NextCalls ==
    \/ \E rc \in EditCells : \E value \in 0 .. 9 : SetCell(rc[1], rc[2], value)
    \/ CallValidatePuzzle

SpecCalls == InitCalls /\ [][NextCalls]_vars

\* the caller only writes cells of its grid; the engine's functions are
\* applied to the grid of each state
WrittenCells == EditCells \cup {<<1, 1>>}

NextWrites ==
    \E rc \in WrittenCells : \E value \in 0 .. 9 : SetCell(rc[1], rc[2], value)

SpecWrites == InitCalls /\ [][NextWrites]_vars

(***************************************************************************)
(* A caller passes a grid to engine.solvePuzzle: a grid of its own (the    *)
(* tests build one) or the grid generatePuzzle returned.                   *)
(***************************************************************************)
\* the grid of testSolving: all empty but for three clues
simpleGrid == [EmptyGrid EXCEPT ![0][0] = 1, ![0][1] = 2, ![1][0] = 3]

\* the solved grid of the tests with (4,6), (4,7) and (8,8) emptied and 9
\* written at (8,7): no two filled cells conflict, 7 fits at (4,6), and then
\* nothing fits at (4,7)
deadEndGrid == [CanonGrid EXCEPT ![4][6] = 0, ![4][7] = 0, ![8][7] = 9, ![8][8] = 0]

\* the grids callers build
SolverGrids ==
    {simpleGrid, deadEndGrid} \cup {ClearFirst(CanonGrid, k) : k \in 0 .. MaxCleared}

\* grid[row][col] = 0 on the way back from a recursive call that failed,
\* left out
backtrackKeeps(g, row, col) == g

\* grid[row][col] = 0 on the way back from a recursive call that failed
backtrack(g, row, col) == [g EXCEPT ![row][col] = 0]

\* the call engine.solvePuzzle(g) begins; shared: g is the array the engine
\* holds as this.grid
enterSolvePuzzle(g, shared) ==
    /\ argGrid' = g
    /\ entry' = [arg |-> g, shared |-> shared]
    /\ LET e == solveEnter(g, rng)
       IN  /\ rng' = e.rng
           /\ IF e.solved
              THEN /\ stack' = <<>>
                   /\ result' = [solved |-> TRUE]
                   /\ pc' = "called"
              ELSE /\ stack' = <<e.frame>>
                   /\ result' = NoResult
                   /\ pc' = "callSolvePuzzle"
    /\ UNCHANGED <<engineVars, attempts, removed, cell, testGrid, solutions>>
    /\ UNCHANGED <<uiVars, serverVars, edits, solveVars, puzzle>>

\* engine.solvePuzzle(g) on a grid the caller built
CallSolvePuzzle(g) ==
    /\ pc = "idle"
    /\ enterSolvePuzzle(g, FALSE)

\* engine.solvePuzzle(puzzle.grid) right after generatePuzzle
CallSolveReturnedGrid ==
    /\ pc = "returned"
    /\ moves = 0
    /\ puzzle # NoPuzzle
    /\ enterSolvePuzzle(grid, puzzle.grid.shared)

\* one iteration of the for-loop of the innermost solvePuzzle call that
\* reaches a recursive call, or the return of that call; the writes go to
\* the array that was passed in
CallSolvePuzzleStep ==
    /\ pc = "callSolvePuzzle"
    /\ LET top == stack[Len(stack)]
           cand == {j \in top.i .. Len(top.numbers) :
                       isValidMove(argGrid, top.row, top.col, top.numbers[j])}
           written(g) == IF entry.shared THEN g ELSE grid
       IN  IF cand = {}
           THEN \* return false: the caller backtracks its own cell
                /\ stack' = SubSeq(stack, 1, Len(stack) - 1)
                /\ rng' = rng
                /\ IF Len(stack) = 1
                   THEN /\ argGrid' = argGrid
                        /\ grid' = grid
                        /\ result' = [solved |-> FALSE]
                        /\ pc' = "called"
                   ELSE LET caller == stack[Len(stack) - 1]
                            g1 == backtrack(argGrid, caller.row, caller.col)
                        IN  /\ argGrid' = g1
                            /\ grid' = written(g1)
                            /\ UNCHANGED <<result, pc>>
           ELSE LET j == Least(cand)
                    g1 == [argGrid EXCEPT ![top.row][top.col] = top.numbers[j]]
                    e == solveEnter(g1, rng)
                IN  /\ argGrid' = g1
                    /\ grid' = written(g1)
                    /\ rng' = e.rng
                    /\ IF e.solved
                       THEN \* solved: every pending call returns true
                            /\ stack' = <<>>
                            /\ result' = [solved |-> TRUE]
                            /\ pc' = "called"
                       ELSE /\ stack' = Append([stack EXCEPT ![Len(stack)].i = j + 1],
                                               e.frame)
                            /\ UNCHANGED <<result, pc>>
    /\ UNCHANGED <<solution, initialGrid, difficulty, attempts, removed, cell,
                   testGrid, solutions>>
    /\ UNCHANGED <<uiVars, serverVars, edits, solveVars, callVars>>

(***************************************************************************)
(* The game controller restores a saved game into the engine; a caller     *)
(* then asks the engine to solve the grid it holds.                        *)
(***************************************************************************)
\* saved games: the puzzle is the solved grid of the tests with its first k
\* cells emptied, and the player has written (or erased) one of those cells
SavedGames ==
    UNION {{[grid |-> [ClearFirst(CanonGrid, k) EXCEPT ![0][col] = value],
             solution |-> CanonGrid,
             initialGrid |-> ClearFirst(CanonGrid, k),
             difficulty |-> "easy",
             gameActive |-> TRUE] : col \in 0 .. (k - 1), value \in 0 .. 9}
           : k \in 1 .. MaxCleared}

\* restoreGameState(gameState)
RestoreGameState(gameState) ==
    /\ pc = "idle"
    /\ grid' = gameState.grid
    /\ solution' = gameState.solution
    /\ initialGrid' = gameState.initialGrid
    /\ difficulty' = gameState.difficulty
    /\ gameActive' = gameState.gameActive
    /\ pc' = "restored"
    /\ UNCHANGED <<rng, stack, attempts, removed, cell, testGrid, solutions>>
    /\ UNCHANGED <<selectedCell, moves, arrows, serverVars, callerVars, solveVars, callVars>>

NextSolve ==
    \/ \E gameState \in SavedGames : RestoreGameState(gameState)
    \/ SolveCurrentPuzzle
    \/ SolvePuzzleWithStepsStep
    \/ \E g \in SolverGrids : CallSolvePuzzle(g)
    \/ CallSolvePuzzleStep

SpecSolve == Init /\ [][NextSolve]_vars

(***************************************************************************)
(* Play with every way the player has to act on the grid: clicks, number   *)
(* keys, right click, arrow keys, hint and auto-solve.                     *)
(***************************************************************************)
NextPlay ==
    \/ Next
    \/ \E c \in PlayCells : HandleCellRightClick(c)
    \/ \E direction \in Directions : MoveSelection(direction)
    \/ UiSolvePuzzle

SpecPlay == Init /\ [][NextPlay]_vars

(***************************************************************************)
(* A game played to its end: the player enters or erases a number, checks  *)
(* the grid, and takes hints until none is left.                           *)
(***************************************************************************)
NextFinish ==
    \/ GeneratePuzzle("easy")
    \/ SolvePuzzleStep
    \/ ShuffleGridAndCopy
    \/ CreatePuzzleAttempt
    \/ FindAllSolutionsStep
    \/ CreatePuzzleExit
    \/ \E c \in PlayCells : HandleCellClick(c)
    \/ \E number \in 0 .. 9 : PlaceNumber(number)
    \/ \E c \in PlayCells : HandleCellRightClick(c)
    \/ ShowHintAgain
    \/ CheckSolution

SpecFinish == Init /\ [][NextFinish]_vars

(***************************************************************************)
(* MatrixSudokuServer: the multiplayer rooms.  Each handler runs to its    *)
(* end before the next event is taken.                                     *)
(***************************************************************************)
\* socket ids
SocketIds == 1 .. MaxSockets

\* the ids generateRoomId() draws; two draws may give the same id
RoomIds == {"K3F9QZ", "7XAB21"}

\* data.maxPlayers of the create-room events sent
RequestedSizes == {1, 2}

\* data.maxPlayers || 4
maxPlayersOf(requested) == IF requested = 0 THEN 4 ELSE requested

\* rooms.delete(roomId)
deleteRoom(rooms, roomId) == [id \in (DOMAIN rooms) \ {roomId} |-> rooms[id]]

\* rooms.set(roomId, room)
setRoom(rooms, roomId, room) ==
    [id \in (DOMAIN rooms) \cup {roomId} |-> IF id = roomId THEN room ELSE rooms[id]]

\* handlePlayerLeaveRoom without the change of host
handlePlayerLeaveRoomKeepHost(rooms, s, roomId) ==
    IF roomId \notin DOMAIN rooms
    THEN rooms
    ELSE LET room == rooms[roomId]
             players == SelectSeq(room.players, LAMBDA p : p.id # s)
         IN  IF Len(players) = 0
             THEN deleteRoom(rooms, roomId)
             ELSE [rooms EXCEPT ![roomId] = [room EXCEPT !.players = players]]

\* handlePlayerLeaveRoom(socket, roomId): the rooms after it
handlePlayerLeaveRoom(rooms, s, roomId) ==
    IF roomId \notin DOMAIN rooms
    THEN rooms
    ELSE LET room == rooms[roomId]
             players == SelectSeq(room.players, LAMBDA p : p.id # s)
         IN  IF Len(players) = 0
             THEN deleteRoom(rooms, roomId)
             ELSE [rooms EXCEPT ![roomId] =
                      [room EXCEPT !.players = players,
                                   !.host = IF room.host = s /\ Len(players) > 0
                                            THEN players[1].id
                                            ELSE room.host]]

\* the loop of handlePlayerDisconnect over the rooms still to visit
RECURSIVE leaveRooms(_, _, _)
leaveRooms(rooms, s, toVisit) ==
    IF toVisit = {}
    THEN rooms
    ELSE LET roomId == CHOOSE id \in toVisit : TRUE
             after == IF /\ roomId \in DOMAIN rooms
                         /\ \E k \in 1 .. Len(rooms[roomId].players) :
                               rooms[roomId].players[k].id = s
                      THEN handlePlayerLeaveRoom(rooms, s, roomId)
                      ELSE rooms
         IN  leaveRooms(after, s, toVisit \ {roomId})

\* handlePlayerDisconnect(socket)
handlePlayerDisconnect(rooms, s) == leaveRooms(rooms, s, DOMAIN rooms)

\* io.on('connection')
Connection(s) ==
    /\ sockets[s] = "new"
    /\ sockets' = [sockets EXCEPT ![s] = "connected"]
    /\ UNCHANGED <<engineVars, genVars, uiVars, callerVars, solveVars, callVars,
                   multiplayerRooms>>

\* socket.on('create-room')
CreateRoom(s, roomId, requested) ==
    /\ sockets[s] = "connected"
    /\ multiplayerRooms' =
           setRoom(multiplayerRooms, roomId,
                   [id |-> roomId,
                    host |-> s,
                    players |-> <<[id |-> s, ready |-> FALSE]>>,
                    gameState |-> "waiting",
                    maxPlayers |-> maxPlayersOf(requested)])
    /\ UNCHANGED <<engineVars, genVars, uiVars, callerVars, solveVars, callVars,
                   sockets>>

\* socket.on('join-room')
JoinRoom(s, roomId) ==
    /\ sockets[s] = "connected"
    /\ IF /\ roomId \in DOMAIN multiplayerRooms
          /\ Len(multiplayerRooms[roomId].players) < multiplayerRooms[roomId].maxPlayers
       THEN multiplayerRooms' =
                [multiplayerRooms EXCEPT
                    ![roomId].players = Append(@, [id |-> s, ready |-> FALSE])]
       ELSE UNCHANGED multiplayerRooms      \* join-room-failed
    /\ UNCHANGED <<engineVars, genVars, uiVars, callerVars, solveVars, callVars,
                   sockets>>

\* socket.on('leave-room')
LeaveRoom(s, roomId) ==
    /\ sockets[s] = "connected"
    /\ multiplayerRooms' = handlePlayerLeaveRoom(multiplayerRooms, s, roomId)
    /\ UNCHANGED <<engineVars, genVars, uiVars, callerVars, solveVars, callVars,
                   sockets>>

\* socket.on('player-ready'), with startMultiplayerGame when every player
\* is ready
PlayerReady(s, roomId) ==
    /\ sockets[s] = "connected"
    /\ IF roomId \in DOMAIN multiplayerRooms
       THEN LET room == multiplayerRooms[roomId]
                mine == {k \in 1 .. Len(room.players) : room.players[k].id = s}
            IN  IF mine # {}
                THEN LET k == Least(mine)
                         players == [room.players EXCEPT ![k].ready = ~ @]
                         start == /\ \A j \in 1 .. Len(players) : players[j].ready
                                  /\ Len(players) >= 2
                     IN  multiplayerRooms' =
                             [multiplayerRooms EXCEPT
                                 ![roomId].players = players,
                                 ![roomId].gameState = IF start THEN "playing" ELSE @]
                ELSE UNCHANGED multiplayerRooms
       ELSE UNCHANGED multiplayerRooms
    /\ UNCHANGED <<engineVars, genVars, uiVars, callerVars, solveVars, callVars,
                   sockets>>

\* socket.on('disconnect')
Disconnect(s) ==
    /\ sockets[s] = "connected"
    /\ sockets' = [sockets EXCEPT ![s] = "disconnected"]
    /\ multiplayerRooms' = handlePlayerDisconnect(multiplayerRooms, s)
    /\ UNCHANGED <<engineVars, genVars, uiVars, callerVars, solveVars, callVars>>

NextServer ==
    \/ \E s \in SocketIds : Connection(s)
    \/ \E s \in SocketIds : \E roomId \in RoomIds : \E requested \in RequestedSizes :
          CreateRoom(s, roomId, requested)
    \/ \E s \in SocketIds : \E roomId \in RoomIds : JoinRoom(s, roomId)
    \/ \E s \in SocketIds : \E roomId \in RoomIds : LeaveRoom(s, roomId)
    \/ \E s \in SocketIds : \E roomId \in RoomIds : PlayerReady(s, roomId)
    \/ \E s \in SocketIds : Disconnect(s)

SpecServer == Init /\ [][NextServer]_vars

(***************************************************************************)
(* The caller of generatePuzzle writes into the grid it was given:         *)
(* puzzle.grid[row][col] = value (solvePuzzle(puzzle.grid) in the tests    *)
(* fills it in the same way).                                              *)
(***************************************************************************)
WriteReturnedGrid(row, col, value) ==
    /\ pc = "returned"
    /\ puzzle # NoPuzzle
    /\ moves < MaxMoves
    /\ IF puzzle.grid.shared
       THEN \* the array is the engine's this.grid
            /\ grid' = [grid EXCEPT ![row][col] = value]
            /\ puzzle' = puzzle
       ELSE /\ puzzle' = [puzzle EXCEPT !.grid.cells[row][col] = value]
            /\ grid' = grid
    /\ moves' = moves + 1
    /\ UNCHANGED <<solution, initialGrid, difficulty, genVars, selectedCell,
                   gameActive, arrows, serverVars, callerVars, solveVars, entry>>

NextCaller ==
    \/ \E d \in Requested : GeneratePuzzle(d)
    \/ SolvePuzzleStep
    \/ ShuffleGridAndCopy
    \/ CreatePuzzleAttempt
    \/ FindAllSolutionsStep
    \/ CreatePuzzleThrows
    \/ CreatePuzzleExit
    \/ \E rc \in EditCells : \E value \in 0 .. 9 : WriteReturnedGrid(rc[1], rc[2], value)
    \/ \E g \in SolverGrids : CallSolvePuzzle(g)
    \/ CallSolveReturnedGrid
    \/ CallSolvePuzzleStep

SpecCaller == Init /\ [][NextCaller]_vars

(***************************************************************************)
(* Properties.  The rules of Sudoku, stated without the engine's code.     *)
(***************************************************************************)
Cells == Idx \X Idx

\* the 3x3 box of a cell: the nine cells from its top-left corner
\* (row - row%3, col - col%3) on
BoxOf ==
    [rc \in Cells |->
        {b \in Cells : /\ b[1] \in (rc[1] - (rc[1] % 3)) .. (rc[1] - (rc[1] % 3) + 2)
                       /\ b[2] \in (rc[2] - (rc[2] % 3)) .. (rc[2] - (rc[2] % 3) + 2)}]

\* the cells that share a row, a column or a 3x3 box with a cell, the cell
\* itself included
SameUnit ==
    [rc \in Cells |->
        {u \in Cells : u[1] = rc[1]} \cup {u \in Cells : u[2] = rc[2]} \cup BoxOf[rc]]

\* num occurs nowhere in the row, the column and the box of (row, col)
Fits(g, row, col, num) == \A u \in SameUnit[<<row, col>>] : g[u[1]][u[2]] # num

\* the value of (row, col) also occurs in another cell of its row, column or box
Conflicts(g, row, col) ==
    /\ g[row][col] # 0
    /\ \E u \in SameUnit[<<row, col>>] : u # <<row, col>> /\ g[u[1]][u[2]] = g[row][col]

\* g is completely filled and satisfies the row, column and box constraints
Solved(g) ==
    \A rc \in Cells : g[rc[1]][rc[2]] \in 1 .. 9 /\ ~ Conflicts(g, rc[1], rc[2])

Clues(g) == Cardinality({rc \in Cells : g[rc[1]][rc[2]] # 0})

\* g, all of whose filled cells agree with sol, has a completion that
\* satisfies the constraints and differs from sol (differs: it already does)
RECURSIVE HasOtherCompletion(_, _, _)
HasOtherCompletion(g, sol, differs) ==
    IF \A rc \in Cells : g[rc[1]][rc[2]] # 0
    THEN differs
    ELSE LET rc == CHOOSE rc \in Cells : g[rc[1]][rc[2]] = 0
         IN  \E num \in 1 .. 9 :
                 /\ Fits(g, rc[1], rc[2], num)
                 /\ HasOtherCompletion([g EXCEPT ![rc[1]][rc[2]] = num], sol,
                                       differs \/ num # sol[rc[1]][rc[2]])

\* sol is the one and only completion of g
OnlyCompletion(g, sol) ==
    /\ Solved(sol)
    /\ \A rc \in Cells : g[rc[1]][rc[2]] # 0 => g[rc[1]][rc[2]] = sol[rc[1]][rc[2]]
    /\ ~ HasOtherCompletion(g, sol, FALSE)

\* generatePuzzle has just returned
JustGenerated == pc = "returned" /\ moves = 0

\* C1: the grid returned by generatePuzzle has exactly one completion that
\* satisfies the row, column and box constraints (the returned solution),
\* whatever the difficulty.
C1_UniqueAfterGeneration ==
    JustGenerated => OnlyCompletion(grid, solution)

C1_Witness ==
    JustGenerated /\ Clues(grid) < N * N /\ attempts > removed

\* C2: every non-zero cell of the returned grid equals the same cell of the
\* returned solution.
C2_CluesFromSolution ==
    JustGenerated =>
        \A rc \in Cells : grid[rc[1]][rc[2]] # 0 =>
                              grid[rc[1]][rc[2]] = solution[rc[1]][rc[2]]

C2_Witness ==
    /\ JustGenerated
    /\ \E rc \in Cells : grid[rc[1]][rc[2]] # 0
    /\ \E rc \in Cells : grid[rc[1]][rc[2]] = 0

\* C3: the returned solution has no zero cell, validatePuzzle reports it
\* valid with an empty errors list, and isComplete returns true on it.
C3_SolutionSelfValidates ==
    JustGenerated =>
        /\ \A rc \in Cells : solution[rc[1]][rc[2]] # 0
        /\ validatePuzzle(solution).isValid
        /\ validatePuzzle(solution).errors = <<>>
        /\ isComplete(solution)

C3_Witness ==
    JustGenerated /\ solution # EmptyGrid /\ solution # grid

\* C4: the returned grid never has fewer clues than the difficulty's target;
\* it has exactly the target when fewer than 1000 attempts were made, and
\* more than the target only when all 1000 attempts were made.
C4_ClueCount ==
    JustGenerated =>
        LET target == difficultySettings[difficulty].clues
        IN  /\ Clues(grid) >= target
            /\ (attempts < MAX_ATTEMPTS => Clues(grid) = target)
            /\ (Clues(grid) > target => attempts = MAX_ATTEMPTS)

C4_Witness ==
    /\ JustGenerated
    /\ attempts = MAX_ATTEMPTS
    /\ Clues(grid) > difficultySettings[difficulty].clues

CanonValidation == validatePuzzle(CanonGrid)
CanonComplete == isComplete(CanonGrid)

\* the errors validatePuzzle is to report: the conflicting cells, row-major
ExpectedErrors(g) ==
    LET bad == SelectSeq(RowMajor, LAMBDA c : Conflicts(g, c.row, c.col))
    IN  [k \in 1 .. Len(bad) |->
            [row |-> bad[k].row, col |-> bad[k].col, value |-> g[bad[k].row][bad[k].col]]]

C7_ValidateRestores ==
    [][CallValidatePuzzle =>
          /\ argGrid' = argGrid
          /\ (result # NoResult => result' = result)]_vars

C7_Witness ==
    result # NoResult /\ ~ result.isValid /\ argGrid # CanonGrid

\* C8: isComplete(grid) is true exactly when the grid has no zero cell and
\* validatePuzzle(grid).isValid is true; it is true on the solved grid of
\* the tests.
C8_IsComplete ==
    /\ isComplete(argGrid) <=>
          /\ \A rc \in Cells : argGrid[rc[1]][rc[2]] # 0
          /\ validatePuzzle(argGrid).isValid
    /\ isComplete(argGrid) => Solved(argGrid)
    /\ CanonComplete

C8_Witness ==
    /\ edits > 0
    /\ \A rc \in Cells : argGrid[rc[1]][rc[2]] # 0
    /\ ~ isComplete(argGrid)

\* C9: after generatePuzzle and any player entries, a hint that is not null
\* names a cell that is empty in the grid, with row and col in 0..8 and a
\* value in 1..9 that is the solution's value at that cell.
C9_HintIsCorrect ==
    pc = "returned" =>
        LET hint == getHint(grid, solution)
        IN  hint # NoHint =>
                /\ hint.row \in 0 .. 8
                /\ hint.col \in 0 .. 8
                /\ grid[hint.row][hint.col] = 0
                /\ hint.value \in 1 .. 9
                /\ hint.value = solution[hint.row][hint.col]
                /\ Fits(initialGrid, hint.row, hint.col, hint.value)

C9_Witness ==
    /\ pc = "returned"
    /\ moves > 0
    /\ \E rc \in Cells : grid[rc[1]][rc[2]] # 0 /\ grid[rc[1]][rc[2]] # solution[rc[1]][rc[2]]
    /\ getHint(grid, solution) # NoHint

\* the empty cells of g, each by its place k = row * 9 + col in row-major order
EmptyPlaces(g) == {k \in 0 .. (N * N - 1) : g[k \div N][k % N] = 0}

\* the number of values 1..9 that fit each empty cell
PossibleCounts(g) ==
    [k \in EmptyPlaces(g) |->
        Cardinality({num \in 1 .. 9 : Fits(g, k \div N, k % N, num)})]

\* the cell of S with the fewest possible values, the first in row-major
\* order among those, as <<row, col>>
MostConstrained(count, S) ==
    LET fewest == Least({count[k] : k \in S})
        k == Least({j \in S : count[j] = fewest})
    IN  <<k \div N, k % N>>

\* C10 as stated: when the grid has an empty cell, getHint returns the empty
\* cell with the fewest values passing isValidMove among all empty cells,
\* the first in row-major order on ties.
C10_FewestOfAll ==
    EmptyPlaces(argGrid) # {} =>
        LET hint == getHint(argGrid, solution)
            count == PossibleCounts(argGrid)
        IN  /\ hint # NoHint
            /\ <<hint.row, hint.col>> = MostConstrained(count, DOMAIN count)

\* the empty cells getHint looks at: those up to and including the first
\* one with exactly one possible value, all of them when there is none
Scanned(count) ==
    LET single == {k \in DOMAIN count : count[k] = 1}
    IN  IF single = {}
        THEN DOMAIN count
        ELSE {k \in DOMAIN count : k <= Least(single)}

\* What getHint computes instead: the cell with the fewest possible values
\* among the empty cells up to and including the first empty cell that has
\* exactly one possible value (among all empty cells when none has exactly
\* one), the first in row-major order on ties.
HintFewestOfScanned ==
    EmptyPlaces(argGrid) # {} =>
        LET hint == getHint(argGrid, solution)
            count == PossibleCounts(argGrid)
        IN  /\ hint # NoHint
            /\ <<hint.row, hint.col>> = MostConstrained(count, Scanned(count))

C16_FailsFast ==
    pc = "threw" =>
        /\ grid = entry.grid
        /\ solution = entry.solution
        /\ initialGrid = entry.initialGrid
        /\ difficulty = entry.difficulty

\* g can be filled to a grid that satisfies the constraints: its filled
\* cells do not conflict and its empty cells can all be given fitting values
Satisfiable(g) ==
    /\ \A rc \in Cells : ~ Conflicts(g, rc[1], rc[2])
    /\ HasOtherCompletion(g, g, TRUE)

\* C12: when the grid the engine holds violates a row, column or box
\* constraint or has no completion, solveCurrentPuzzle returns success
\* false with solution null.
C12_SolveFailsOnUnsatisfiable ==
    (pc = "solved" /\ ~ Satisfiable(grid)) =>
        /\ solveResult.success = FALSE
        /\ solveResult.solution = Null

CompletionOf(g, full) ==
    /\ Solved(full)
    /\ \A rc \in Cells : g[rc[1]][rc[2]] # 0 => full[rc[1]][rc[2]] = g[rc[1]][rc[2]]

\* found lists min(2, number of completions of g) distinct completions of g
RecordsUpToTwo(g, found) ==
    /\ Len(found) <= 2
    /\ \A k \in 1 .. Len(found) : CompletionOf(g, found[k])
    /\ Len(found) = 2 => found[1] # found[2]
    /\ Len(found) = 1 => ~ HasOtherCompletion(g, found[1], FALSE)
    /\ Len(found) = 0 => ~ HasOtherCompletion(g, g, TRUE)

\* hasUniqueSolution has returned to createPuzzle at least once
UniqueTestDone == pc = "createPuzzle" /\ testGrid # EmptyGrid

\* what a call of hasUniqueSolution on tested leaves: the recorded solutions
\* found, and in the grid g of createPuzzle the removed cell c kept empty
\* exactly when the call returned true
UniqueTestResult(tested, found, g, c) ==
    /\ RecordsUpToTwo(tested, found)
    /\ (g[c.row][c.col] = 0) <=>
           (/\ Len(found) >= 1
            /\ ~ HasOtherCompletion(tested, found[1], FALSE))

\* C14: whenever hasUniqueSolution returns, the solutions it recorded are
\* distinct completions of the tested grid, their number is the smaller of 2
\* and the number of completions of that grid (the search went on after the
\* first and stopped at the second), and the call returned true (createPuzzle
\* kept the removed cell empty) exactly when the tested grid has exactly one
\* completion.
C14_UniqueIffOneCompletion ==
    [][(pc = "findAllSolutions" /\ pc' = "createPuzzle") =>
           UniqueTestResult(testGrid', solutions', grid', cell')]_vars

C14_Witness ==
    /\ UniqueTestDone
    /\ Len(solutions) = 2
    /\ solutions[1] # solutions[2]
    /\ CompletionOf(testGrid, solutions[1])
    /\ CompletionOf(testGrid, solutions[2])
    /\ grid[cell.row][cell.col] = cell.backup

\* the errors validatePuzzle reports on g, as a set
ErrorSet(g) ==
    LET errors == validatePuzzle(g).errors
    IN  {errors[k] : k \in 1 .. Len(errors)}

\* C17: for every cell (row, col) and value num in 1..9 for which
\* isValidMove(grid, row, col, num) is true, validatePuzzle on the grid with
\* num written at (row, col) reports no error at (row, col) and only errors
\* it reports on the grid before the write.
C17_ValidMoveAddsNoError ==
    LET before == ErrorSet(argGrid)
    IN  \A rc \in Cells : \A num \in 1 .. 9 :
            isValidMove(argGrid, rc[1], rc[2], num) =>
                LET after == ErrorSet([argGrid EXCEPT ![rc[1]][rc[2]] = num])
                IN  /\ \A e \in after : ~ (e.row = rc[1] /\ e.col = rc[2])
                    /\ after \subseteq before

\* a valid move onto a cell that holds a conflicting value, and a valid move
\* onto an empty cell of a grid that has errors elsewhere
C17_Witness ==
    /\ edits > 0
    /\ \E rc \in Cells : \E num \in 1 .. 9 :
          /\ isValidMove(argGrid, rc[1], rc[2], num)
          /\ Conflicts(argGrid, rc[1], rc[2])
    /\ \E rc \in Cells : \E num \in 1 .. 9 :
          /\ isValidMove(argGrid, rc[1], rc[2], num)
          /\ argGrid[rc[1]][rc[2]] = 0
          /\ ErrorSet(argGrid) # {}

\* C18: from the return of generatePuzzle on, whatever the player does
\* (placing or erasing a number, right click, arrow keys, hint, auto-solve),
\* every cell that was a clue at generation holds its clue value, and
\* isGivenCell answers for every cell as it did at generation.
C18_CluesStay ==
    [][pc' = "returned" =>
          /\ \A rc \in Cells :
                isGivenCell(initialGrid', rc[1], rc[2]) =>
                    grid'[rc[1]][rc[2]] = initialGrid'[rc[1]][rc[2]]
          /\ pc = "returned" =>
                \A rc \in Cells : isGivenCell(initialGrid', rc[1], rc[2])
                                      = isGivenCell(initialGrid, rc[1], rc[2])]_vars

\* the selection was moved with the arrow keys onto a clue after the player
\* changed the grid
C18_Witness ==
    /\ pc = "returned"
    /\ moves > 0
    /\ arrows > 0
    /\ grid # initialGrid
    /\ selectedCell # NoSelection
    /\ isGivenCell(initialGrid, selectedCell.row, selectedCell.col)

\* C19: the engine keeps no reference to the grid generatePuzzle returned:
\* when the caller writes a cell of the returned grid, the grid the engine
\* holds (getGrid) is left as it was.
C19_ReturnedGridIsCallers ==
    [][(\E rc \in EditCells : \E value \in 0 .. 9 :
            WriteReturnedGrid(rc[1], rc[2], value)) => grid' = grid]_vars

\* the solution a newly constructed engine holds: it has generated and
\* restored nothing
ConstructedSolution == EmptyGrid

\* C20: getHint depends on its grid argument only: called with the grid of
\* the puzzle just generated, the engine that generated it returns what a
\* newly constructed engine returns for the same grid.
C20_HintIgnoresHistory ==
    pc = "returned" =>
        getHint(grid, solution) = getHint(grid, ConstructedSolution)

\* the tolerance of testDifficultyLevels
tolerance == 5

\* C21: the number of clues of a returned puzzle differs from the target of
\* its difficulty by at most 5.
C21_CluesNearTarget ==
    JustGenerated =>
        LET target == difficultySettings[difficulty].clues
        IN  /\ Clues(grid) - target <= tolerance
            /\ target - Clues(grid) <= tolerance

\* the solved grid of the tests with 3 written over the 5 of cell (0, 0)
CanonWithThree == [CanonGrid EXCEPT ![0][0] = 3]

\* C22: on the solved grid of the tests with cell (0, 0) changed from 5 to
\* 3, isValidMove(grid, 0, 0, 3) is false and isValidMove(grid, 0, 0, 5) is
\* true.
C22_ConflictAndRestore ==
    argGrid = CanonWithThree =>
        /\ ~ isValidMove(argGrid, 0, 0, 3)
        /\ isValidMove(argGrid, 0, 0, 5)

C22_Witness ==
    /\ edits = 1
    /\ argGrid = CanonWithThree
    /\ argGrid[0][0] = 3
    /\ CanonGrid[0][0] = 5

\* no two filled cells of g conflict
ConflictFree(g) == \A rc \in Cells : ~ Conflicts(g, rc[1], rc[2])

\* C23: when solvePuzzle returns from a call on a grid whose filled cells
\* are free of conflicts, it has returned true exactly when the grid passed
\* in has a completion: on true the grid is such a completion (no empty
\* cell, constraints satisfied, every cell that was filled on entry holds
\* its value) and validatePuzzle finds it valid, on false the grid passed in
\* has no completion; when the grid passed in is the one generatePuzzle
\* returned, the call returns true with the grid equal to the puzzle's
\* solution and isComplete true on it.
C23_SolvePuzzleDecides ==
    (pc = "called" /\ ConflictFree(entry.arg)) =>
        /\ result.solved =>
              /\ CompletionOf(entry.arg, argGrid)
              /\ validatePuzzle(argGrid).isValid
        /\ ~ result.solved => ~ Satisfiable(entry.arg)
        /\ puzzle # NoPuzzle =>
              /\ result.solved
              /\ argGrid = solution
              /\ isComplete(argGrid)

C23_Witness ==
    /\ pc = "called"
    /\ puzzle # NoPuzzle
    /\ ConflictFree(entry.arg)
    /\ Clues(entry.arg) < N * N
    /\ result.solved
    /\ argGrid = solution

\* the permutations of the three positions of a band
BandOrders == {f \in [0 .. (BOX - 1) -> 0 .. (BOX - 1)] :
                  \A i, j \in 0 .. (BOX - 1) : f[i] = f[j] => i = j}

\* a choice of one order for each of the three bands
BandShuffles == [0 .. (BOX - 1) -> BandOrders]

\* the line (row or column) that moves to line k under the band shuffle sh:
\* a line of the band of k
MovedFrom(sh, k) == (k \div BOX) * BOX + sh[k \div BOX][k % BOX]

\* after is before with its rows permuted within each band of 3 rows and
\* its columns permuted within each band of 3 columns, the same column
\* permutation in all 9 rows
BandPermuted(before, after) ==
    \E rows \in BandShuffles : \E cols \in BandShuffles :
        \A row \in Idx : \A col \in Idx :
            after[row][col] = before[MovedFrom(rows, row)][MovedFrom(cols, col)]

\* C24: shuffleGrid only permutes rows within each band of 3 rows and
\* columns within each band of 3 columns (one column permutation per band
\* for all rows): every value stays in its band of boxes, and a complete grid
\* that satisfies the row, column and box constraints satisfies them after
\* the shuffle.
C24_ShuffleKeepsBands ==
    [][(pc = "shuffleGrid" /\ pc' = "createPuzzle") =>
          /\ BandPermuted(grid, grid')
          /\ \A row \in Idx : \A col \in Idx :
                \E r \in Idx : \E c \in Idx :
                    /\ r \div BOX = row \div BOX
                    /\ c \div BOX = col \div BOX
                    /\ grid'[r][c] = grid[row][col]
          /\ Solved(grid) => Solved(grid')]_vars

\* shuffleGrid has run on a complete grid that satisfies the constraints
C24_Witness ==
    /\ pc = "createPuzzle"
    /\ attempts = 0
    /\ removed = 0
    /\ difficulty \in Difficulties
    /\ Solved(grid)
    /\ solution = grid

\* C25: createPuzzle ends, after at most 1000 attempts whatever the
\* uniqueness tests answer, and the grid it leaves has exactly the cells
\* removed that were counted as removals.
C25_CreatePuzzleEnds ==
    /\ [](attempts <= MAX_ATTEMPTS)
    /\ (pc = "createPuzzle" /\ attempts = 0 /\ difficulty \in Difficulties)
           ~> (/\ pc = "returned"
               /\ attempts <= MAX_ATTEMPTS
               /\ Clues(grid) = N * N - removed)

\* the budget ran out before the target was reached
C25_Witness ==
    /\ pc = "returned"
    /\ moves = 0
    /\ attempts = MAX_ATTEMPTS
    /\ removed < N * N - difficultySettings[difficulty].clues
    /\ Clues(grid) = N * N - removed

\* a pass of the while-loop of createPuzzle begins: it picks a cell that is
\* still filled and clears it for the uniqueness test
AttemptPicksFilledCell ==
    (pc = "createPuzzle" /\ pc' \in {"createPuzzle", "findAllSolutions"}) =>
        /\ pc' = "findAllSolutions"
        /\ grid[cell'.row][cell'.col] # 0
        /\ cell'.backup = grid[cell'.row][cell'.col]
        /\ grid' = [grid EXCEPT ![cell'.row][cell'.col] = 0]
        /\ attempts' = attempts /\ removed' = removed

\* the uniqueness test leaves the grid alone, and when it returns the
\* attempt ends: the removal is kept and counted when the grid with the cell
\* cleared has one completion only, else the cell gets its value back and
\* the grid is the grid from before the attempt
AttemptOutcome ==
    /\ (pc = "findAllSolutions" /\ pc' = "findAllSolutions") =>
          grid' = grid /\ cell' = cell /\ removed' = removed /\ attempts' = attempts
    /\ (pc = "findAllSolutions" /\ pc' = "createPuzzle") =>
          /\ attempts' = attempts + 1
          /\ grid[cell.row][cell.col] = 0
          /\ IF /\ Len(solutions') >= 1
                /\ ~ HasOtherCompletion(grid, solutions'[1], FALSE)
             THEN grid' = grid /\ removed' = removed + 1
             ELSE /\ grid' = [grid EXCEPT ![cell.row][cell.col] = cell.backup]
                  /\ removed' = removed

\* C26: every attempt of createPuzzle picks a cell that is still filled and
\* clears it tentatively; when the puzzle is still unique the removal is
\* kept and counted, otherwise the value of the cell is restored and the
\* grid is as it was before the attempt.
C26_AttemptOnFilledCell ==
    [][AttemptPicksFilledCell /\ AttemptOutcome]_vars

\* the part of C26 about the outcome of an attempt that did clear a cell
AttemptKeepsOrRestores ==
    [][AttemptOutcome]_vars

\* C27: when solvePuzzle or solvePuzzleWithSteps returns false, every cell
\* it wrote is 0 again: the grid on return is, cell for cell, the grid that
\* was passed in.
C27_FailedSolveRestores ==
    /\ (pc = "called" /\ ~ result.solved) => argGrid = entry.arg
    /\ (pc = "solved" /\ ~ solveResult.success) => gridCopy = grid

\* solvePuzzle returned false on a grid whose first empty cell had a value
\* that fits, so that the call had written to it
C27_Witness ==
    /\ pc = "called"
    /\ ~ result.solved
    /\ LET empty == findEmptyCell(entry.arg)
       IN  /\ empty # Null
           /\ \E num \in 1 .. N : isValidMove(entry.arg, empty[1], empty[2], num)

\* solvePuzzleWithSteps returned false after it had placed values
FailedWithSteps ==
    pc = "solved" /\ ~ solveResult.success /\ Len(steps) > 0

\* the grid after the steps st were written onto a copy of g, first to
\* last: a cell holds the value of the last step on it, or its value in g
\* when no step is on it
Replay(g, st) ==
    [row \in 0 .. (N - 1) |->
        [col \in 0 .. (N - 1) |->
            LET on == {k \in 1 .. Len(st) : st[k].row = row /\ st[k].col = col}
            IN  IF on = {} THEN g[row][col]
                ELSE st[CHOOSE k \in on : \A m \in on : m <= k].value]]

\* C28: after a successful solveCurrentPuzzle, the returned place steps
\* written in order onto a copy of the grid of the engine give exactly the
\* returned solution, and no step is on a cell that was filled before the
\* call.
C28_StepsReplayToSolution ==
    (pc = "solved" /\ solveResult.success) =>
        /\ Replay(grid, solveResult.steps) = solveResult.solution
        /\ \A k \in 1 .. Len(solveResult.steps) :
              /\ solveResult.steps[k].type = "place"
              /\ grid[solveResult.steps[k].row][solveResult.steps[k].col] = 0

\* a successful solve that had to backtrack: some cell was placed more than
\* once
C28_Witness ==
    /\ pc = "solved"
    /\ solveResult.success
    /\ Len(steps) > Len(solveResult.steps)
    /\ \E j, k \in 1 .. Len(solveResult.steps) :
          /\ j < k
          /\ solveResult.steps[j].row = solveResult.steps[k].row
          /\ solveResult.steps[j].col = solveResult.steps[k].col

\* C29: after generatePuzzle, whatever the player does (placeNumber, erase,
\* showHint, checkSolution), when the UI declares the game complete the
\* grid of the engine is the solution of the puzzle, cell for cell.
\* gameComplete() is only called right after isComplete(engine.grid)
\* answered true, and it ends the game.
C29_CompleteIsTheSolution ==
    /\ []((pc = "returned" /\ isComplete(grid)) => grid = solution)
    /\ [][(pc = "returned" /\ gameActive /\ ~ gameActive') => grid' = solution']_vars

\* the player has entered a number, and the game was declared complete
C29_Witness ==
    /\ pc = "returned"
    /\ ~ gameActive
    /\ moves > 0
    /\ selectedCell # NoSelection
    /\ isComplete(grid)

\* C30: after any sequence of create-room, join-room, player-ready,
\* leave-room and disconnect events, every room held in multiplayerRooms
\* has at least one player, and its host is the id of one of its players.
C30_RoomsHaveTheirHost ==
    \A roomId \in DOMAIN multiplayerRooms :
        LET room == multiplayerRooms[roomId]
        IN  /\ Len(room.players) >= 1
            /\ \E k \in 1 .. Len(room.players) : room.players[k].id = room.host

\* a game was started in a room, which takes two players, and one player
\* is left in it: a player has left the room or has disconnected, and the
\* room was kept
C30_Witness ==
    \E roomId \in DOMAIN multiplayerRooms :
        /\ multiplayerRooms[roomId].gameState = "playing"
        /\ Len(multiplayerRooms[roomId].players) = 1
        /\ \E s \in SocketIds : sockets[s] = "disconnected"
====
